---- MODULE Spec2Model ----
(***************************************************************************)
(* OTA update server: the publish pipeline (scripts/publish.ts with        *)
(* lib/storage.ts), the update record store (models/Update.ts) and the     *)
(* manifest resolution endpoint (app/api/updates/route.ts).                *)
(*                                                                         *)
(* JavaScript values are modelled with one TLA+ type per slot:             *)
(*   - strings are strings; null/undefined of a string slot is "undefined" *)
(*   - dates and date-like raw values are records [tag, n]                 *)
(*   - an optional object is a sequence of length 0 or 1                   *)
(*   - a blob pathname is the sequence of its "/"-separated segments       *)
(***************************************************************************)
EXTENDS Integers, Sequences, FiniteSets, TLC

\* ------------------------------------------------------------------ bounds
NumPublishers == 2
MaxTime == 1
MaxAssets == 1
MaxBundleBytes == 1

Procs == 1..NumPublishers

\* ------------------------------------------------------------- identifiers
\* The strings generateUpdateId can return: UUID v4 strings.
UuidTable ==
  << "1a000000-0000-4000-8000-000000000001",
     "2b000000-0000-4000-8000-000000000002",
     "3c000000-0000-4000-8000-000000000003",
     "4d000000-0000-4000-8000-000000000004" >>

\* The strings crypto.randomUUID can return in the resolution endpoint.
RandomUuids == { "9e000000-0000-4000-9000-00000000000a",
                 "9f000000-0000-4000-a000-00000000000b" }

Undefined == "undefined"

\* The strings crypto.randomUUID returns in the migration script, one per
\* document migrated.
MigrationUuids ==
  << "a1000000-0000-4000-b000-0000000000a1",
     "a2000000-0000-4000-b000-0000000000a2",
     "a3000000-0000-4000-b000-0000000000a3",
     "a4000000-0000-4000-b000-0000000000a4" >>

MatchesUuidRegex(v) ==
  v \in ( {UuidTable[i] : i \in DOMAIN UuidTable} \cup RandomUuids
          \cup {MigrationUuids[i] : i \in DOMAIN MigrationUuids} )

\* route.ts isUUID: the regular expression test; a missing value is tested as
\* the string "undefined", which does not match.
isUUID(v) == IF v = Undefined THEN FALSE ELSE MatchesUuidRegex(v)

\* publish.ts generateUpdateId: the k-th draw of 16 random bytes, formatted.
generateUpdateId(k) == UuidTable[k]

\* ------------------------------------------------------------------- dates
Date(n) == [tag |-> "date", n |-> n]
NoValue == [tag |-> "undefined", n |-> 0]
IsoString(n) == [tag |-> "iso", n |-> n]
Text(n) == [tag |-> "text", n |-> n]
Number(n) == [tag |-> "number", n |-> n]

\* ----------------------------------------------------------------- storage
\* lib/storage.ts getContentType: by file extension, octet-stream otherwise.
getContentType(ext) ==
  CASE ext = "png" -> "image/png"
    [] ext = "jpg" -> "image/jpeg"
    [] ext = "jpeg" -> "image/jpeg"
    [] ext = "gif" -> "image/gif"
    [] ext = "svg" -> "image/svg+xml"
    [] ext = "json" -> "application/json"
    [] ext = "ttf" -> "font/ttf"
    [] ext = "woff" -> "font/woff"
    [] ext = "woff2" -> "font/woff2"
    [] ext = "js" -> "application/javascript"
    [] ext = "map" -> "application/json"
    [] ext = "hbc" -> "application/octet-stream"
    [] OTHER -> "application/octet-stream"

\* lib/storage.ts calculateHash: the SHA-256 hex digest of the bytes; distinct
\* contents have distinct digests.
calculateHash(content) == [sha256 |-> content]

\* "sha256:" + digest, as written into an asset's hash field.
TaggedHash(h) == [alg |-> "sha256", hex |-> h]

\* The third argument of uploadToVercelBlob is read as options?.contentType;
\* publish.ts passes a string there, which has no such property.
OptionsString(s) == [isObject |-> FALSE, contentType |-> s]

OptionsContentType(options) ==
  IF options.isObject THEN options.contentType ELSE Undefined

\* lib/storage.ts uploadToVercelBlob(filePath, fileName, options): the put
\* request it issues. fileName is the blob pathname, the body is the file's
\* bytes, the content type is options.contentType or else by extension.
uploadToVercelBlob(file, fileName, options) ==
  [ pathname |-> fileName,
    body |-> file.bytes,
    contentType |-> IF OptionsContentType(options) # Undefined
                    THEN OptionsContentType(options)
                    ELSE getContentType(file.ext) ]

\* ------------------------------------------------------------------- state
VARIABLES
  blob,     \* the object storage: pathname -> [body, contentType, writes]
  store,    \* the update collection, in insertion order
  now,      \* the clock read by new Date(), in milliseconds
  nextId,   \* how many identifiers generateUpdateId has drawn
  pub,      \* each publish process: its position and local variables
  resp      \* the last resolution request and its response

vars == << blob, store, now, nextId, pub, resp >>

\* ------------------------------------------------------- publish: the inputs
NoFile == [rel |-> "", ext |-> "", bytes |-> 0]

\* What the command line can carry: --channel, --platform, --runtime-version
\* ("" is a missing argument).
CliInputs ==
  { [channel |-> "production", platform |-> "android", runtimeVersion |-> "1.0.0"],
    [channel |-> "production", platform |-> "ios", runtimeVersion |-> "1.0.0"],
    [channel |-> "", platform |-> "android", runtimeVersion |-> "1.0.0"],
    [channel |-> "nightly", platform |-> "ios", runtimeVersion |-> "1.0.0"],
    [channel |-> "production", platform |-> "windows", runtimeVersion |-> "1.0.0"],
    [channel |-> "staging", platform |-> "", runtimeVersion |-> "1.0.0"],
    [channel |-> "staging", platform |-> "ios", runtimeVersion |-> ""] }

\* What "expo export" can leave in dist/<platform>: the entry file of
\* _expo/static/js/<platform> (ext "" when there is none), whether
\* bundles/index-<platform>.js exists, and the bundle's bytes.
ExportTrees ==
  [ entryExt : {"", "hbc", "js"}, legacy : BOOLEAN, bytes : 1..MaxBundleBytes ]

\* The files getAllFiles can find under the assets directory, in traversal
\* order.
AssetTable ==
  << [rel |-> "a.png", ext |-> "png", bytes |-> 11],
     [rel |-> "fonts/b.ttf", ext |-> "ttf", bytes |-> 12],
     [rel |-> "c.json", ext |-> "json", bytes |-> 13],
     [rel |-> "d.bin", ext |-> "bin", bytes |-> 14] >>

AssetLists == { SubSeq(AssetTable, 1, n) : n \in 0..MaxAssets }

Idle ==
  [ pc |-> "idle", channel |-> "", platform |-> "", runtimeVersion |-> "",
    bundleExtension |-> "", bundleContent |-> 0, isBinary |-> FALSE,
    bundleHash |-> calculateHash(0),
    updateId |-> Undefined, bundleUrl |-> << >>, todo |-> << >>,
    assets |-> << >>, commitTime |-> NoValue, manifest |-> << >>,
    err |-> "", puts |-> 0, connects |-> 0, fetches |-> 0,
    response |-> << >> ]

\* ------------------------------------------------------ publish: the steps
Channels == {"development", "staging", "production"}
Platforms == {"ios", "android"}

\* publish.ts, CLI argument parsing: usage error or invalid channel/platform.
CliAcceptsAnyChannel(a) ==
  /\ a.channel # "" /\ a.platform # "" /\ a.runtimeVersion # ""
  /\ a.platform \in Platforms

CliAccepts(a) ==
  /\ a.channel # "" /\ a.platform # "" /\ a.runtimeVersion # ""
  /\ a.channel \in Channels
  /\ a.platform \in Platforms

\* The process exits: what it worked on is gone, what it was asked, the
\* identifier it drew and how far it came are kept for the record.
Exit(l, pc, why) ==
  [ Idle EXCEPT !.pc = pc, !.err = why, !.channel = l.channel,
                !.platform = l.platform, !.runtimeVersion = l.runtimeVersion,
                !.updateId = l.updateId, !.commitTime = l.commitTime,
                !.puts = l.puts, !.connects = l.connects,
                !.fetches = l.fetches ]

Fail(l, why) == Exit(l, "failed", why)

FormatRuleOff(platform, isBinary) == FALSE

\* publish.ts lines 119-127: android requires Hermes bytecode.
FormatViolation(platform, isBinary) == platform = "android" /\ ~isBinary

\* publish.ts step 5: the static entry directory first, the legacy bundle
\* path only if that gave nothing. NoFile when neither has a bundle.
LocateBundle(tree) ==
  IF tree.entryExt # ""
  THEN [rel |-> "entry-1", ext |-> tree.entryExt, bytes |-> tree.bytes]
  ELSE IF tree.legacy
       THEN [rel |-> "index", ext |-> "js", bytes |-> tree.bytes]
       ELSE NoFile

\* The upload call for the bundle, as publish.ts writes it:
\* uploadToVercelBlob(bundlePath, updateId, `bundle.${bundleExtension}`).
BundleUpload(l) ==
  uploadToVercelBlob([rel |-> "", ext |-> l.bundleExtension,
                      bytes |-> l.bundleContent],
                     << l.updateId >>,
                     OptionsString("bundle." \o l.bundleExtension))

\* The upload call for an asset file:
\* uploadToVercelBlob(assetFile, updateId, `assets/${relativePath}`).
AssetUpload(l, file) ==
  uploadToVercelBlob(file, << l.updateId >>,
                     OptionsString("assets/" \o file.rel))

\* @vercel/blob put with addRandomSuffix: false: the blob is stored under
\* exactly the pathname given, replacing what was there.
PutBlob(b, req) ==
  (req.pathname :>
     [ body |-> req.body, contentType |-> req.contentType,
       writes |-> IF req.pathname \in DOMAIN b
                  THEN b[req.pathname].writes + 1 ELSE 1 ]) @@ b

BundleAssetTypedByExtension(l) ==
  [ hash |-> TaggedHash(l.bundleHash), key |-> "bundle",
    contentType |-> getContentType(l.bundleExtension), url |-> l.bundleUrl ]

\* publish.ts step 9/10, up to the save call: the bundle asset, the commit
\* time read from the clock, the manifest.
BundleAsset(l) ==
  [ hash |-> TaggedHash(l.bundleHash), key |-> "bundle",
    contentType |-> "application/octet-stream", url |-> l.bundleUrl ]

Assemble(l, t) ==
  [ l EXCEPT
      !.pc = "save",
      !.commitTime = Date(t),
      !.manifest =
        << [ id |-> l.updateId,
             createdAt |-> IsoString(t),
             runtimeVersion |-> l.runtimeVersion,
             launchAsset |-> << BundleAsset(l) >>,
             assets |-> << BundleAsset(l) >> \o l.assets,
             hasAssets |-> TRUE,
             metadata |-> "{}",
             extra |-> "{}" ] >> ]

\* publish.ts step 8: the asset files found, then either the first asset
\* upload is issued or, with none, the manifest is assembled.
StartAssets(l, files, t) ==
  IF files = << >>
  THEN Assemble(l, t)
  ELSE [l EXCEPT !.pc = "assets", !.todo = files, !.puts = l.puts + 1]

UpdateSchemaDefaultStatus(l) ==
  [ id |-> Undefined,
    runtimeVersion |-> l.runtimeVersion,
    platform |-> l.platform,
    channel |-> l.channel,
    status |-> "draft",
    commitTime |-> l.commitTime,
    manifest |-> l.manifest[1],
    createdAt |-> l.commitTime ]

\* models/Update.ts UpdateSchema: the document Mongoose persists for
\* new Update({...}): the paths of the schema only (id and publishedAt are
\* not paths of it), createdAt defaulting to the clock.
UpdateSchema(l) ==
  [ id |-> Undefined,
    runtimeVersion |-> l.runtimeVersion,
    platform |-> l.platform,
    channel |-> l.channel,
    status |-> "published",
    commitTime |-> l.commitTime,
    manifest |-> l.manifest[1],
    createdAt |-> l.commitTime ]

SameScope(r, rv, pl, ch) ==
  r.runtimeVersion = rv /\ r.platform = pl /\ r.channel = ch

IndexNotUnique(s, doc) == FALSE

IndexOnCommitTime(s, doc) ==
  \E i \in DOMAIN s : s[i].commitTime = doc.commitTime

IndexOnManifestId(s, doc) ==
  \E i \in DOMAIN s : s[i].manifest.id = doc.manifest.id

\* models/Update.ts, the unique index on (runtimeVersion, platform, channel,
\* commitTime): whether inserting doc would duplicate a key.
DuplicateKey(s, doc) ==
  \E i \in DOMAIN s :
    /\ SameScope(s[i], doc.runtimeVersion, doc.platform, doc.channel)
    /\ s[i].commitTime = doc.commitTime

Step(p, l) == pub' = [pub EXCEPT ![p] = l]

\* A publish is started: argument parsing, then connectDB is awaited.
Start(p) ==
  /\ pub[p].pc = "idle"
  /\ \A q \in Procs : q < p => pub[q].pc # "idle"
  /\ \E a \in CliInputs :
       Step(p, IF CliAccepts(a)
               THEN [Idle EXCEPT !.pc = "connect", !.channel = a.channel,
                                 !.platform = a.platform,
                                 !.runtimeVersion = a.runtimeVersion,
                                 !.connects = 1]
               ELSE Fail(Idle, "usage"))
  /\ UNCHANGED << blob, store, now, nextId, resp >>

\* connectDB has failed.
ConnectFails(p) ==
  /\ pub[p].pc = "connect"
  /\ Step(p, Fail(pub[p], "connect"))
  /\ UNCHANGED << blob, store, now, nextId, resp >>

\* connectDB has resolved: project check, export, locating the bundle, the
\* format rule, the digest, the identifier; then the bundle upload is issued.
Export(p) ==
  /\ pub[p].pc = "connect"
  /\ \E exportOk \in BOOLEAN, tree \in ExportTrees :
       LET l == pub[p]
           b == LocateBundle(tree)
           binary == b.ext = "hbc"
       IN IF ~exportOk
          THEN /\ Step(p, Fail(l, "export"))
               /\ UNCHANGED nextId
          ELSE IF b = NoFile
          THEN /\ Step(p, Fail(l, "not-found"))
               /\ UNCHANGED nextId
          ELSE IF FormatViolation(l.platform, binary)
          THEN /\ Step(p, Fail(l, "format"))
               /\ UNCHANGED nextId
          ELSE /\ nextId' = nextId + 1
               /\ Step(p, [l EXCEPT !.pc = "upload",
                                    !.bundleExtension = b.ext,
                                    !.bundleContent = b.bytes,
                                    !.isBinary = binary,
                                    !.bundleHash = calculateHash(b.bytes),
                                    !.updateId = generateUpdateId(nextId + 1),
                                    !.puts = 1])
  /\ UNCHANGED << blob, store, now, resp >>

\* The bundle put has been rejected (no token, network or service error).
BundlePutFails(p) ==
  /\ pub[p].pc = "upload"
  /\ Step(p, Fail(pub[p], "upload"))
  /\ UNCHANGED << blob, store, now, nextId, resp >>

\* The bundle put has resolved: its url is kept; a binary bundle is then
\* re-fetched, any other goes on to the assets.
BundlePut(p) ==
  /\ pub[p].pc = "upload"
  /\ LET l == pub[p]
         req == BundleUpload(l)
         l2 == [l EXCEPT !.bundleUrl = req.pathname]
     IN /\ blob' = PutBlob(blob, req)
        /\ IF l.isBinary
           THEN Step(p, [l2 EXCEPT !.pc = "verify", !.fetches = l.fetches + 1])
           ELSE \E files \in AssetLists : Step(p, StartAssets(l2, files, now))
  /\ UNCHANGED << store, now, nextId, resp >>

\* The bytes a delivery layer hands out in place of the stored ones when it
\* transcodes them.
Transcoded(body) == body + 100

\* What fetch(url, Accept-Encoding: identity) can come back with: an
\* exception, an HTTP error, the stored bytes (with no Content-Encoding, with
\* identity, or sent compressed and decoded by fetch, the header still
\* telling), or other bytes.
FetchResponses(b, url) ==
  { [threw |-> TRUE, ok |-> FALSE, contentEncoding |-> "", body |-> 0],
    [threw |-> FALSE, ok |-> FALSE, contentEncoding |-> "", body |-> 0] }
  \cup
  IF url \in DOMAIN b
  THEN { [threw |-> FALSE, ok |-> TRUE, contentEncoding |-> "",
          body |-> b[url].body],
         [threw |-> FALSE, ok |-> TRUE, contentEncoding |-> "identity",
          body |-> b[url].body],
         [threw |-> FALSE, ok |-> TRUE, contentEncoding |-> "gzip",
          body |-> b[url].body],
         [threw |-> FALSE, ok |-> TRUE, contentEncoding |-> "",
          body |-> Transcoded(b[url].body)] }
  ELSE {}

VerifyDigestOnly(response, expectedHash) ==
  [ matches |-> ~response.threw /\ response.ok
                /\ calculateHash(response.body) = expectedHash,
    actualHash |-> calculateHash(response.body),
    error |-> Undefined ]

VerifyTrustsStatus(response, expectedHash) ==
  [ matches |-> ~response.threw /\ response.ok,
    actualHash |-> calculateHash(response.body),
    error |-> IF ~response.threw /\ response.ok THEN Undefined ELSE "HTTP" ]

\* lib/storage.ts verifyHashFromUrl, given the response of its fetch.
verifyHashFromUrl(response, expectedHash) ==
  IF response.threw
  THEN [matches |-> FALSE, actualHash |-> calculateHash(0),
        error |-> "Verification failed"]
  ELSE IF ~response.ok
  THEN [matches |-> FALSE, actualHash |-> calculateHash(0), error |-> "HTTP"]
  ELSE IF response.contentEncoding # ""
          /\ response.contentEncoding # "identity"
  THEN [matches |-> FALSE, actualHash |-> calculateHash(0),
        error |-> "Compression detected"]
  ELSE [matches |-> calculateHash(response.body) = expectedHash,
        actualHash |-> calculateHash(response.body),
        error |-> IF calculateHash(response.body) = expectedHash
                  THEN Undefined ELSE "Hash mismatch"]

\* The fetch of the integrity re-fetch has settled.
Refetch(p) ==
  /\ pub[p].pc = "verify"
  /\ pub[p].response = << >>
  /\ \E response \in FetchResponses(blob, pub[p].bundleUrl) :
       Step(p, [pub[p] EXCEPT !.response = << response >>])
  /\ UNCHANGED << blob, store, now, nextId, resp >>

VerifyNonFatal(p) ==
  /\ pub[p].pc = "verify"
  /\ pub[p].response # << >>
  /\ LET l == [pub[p] EXCEPT !.response = << >>]
     IN \E files \in AssetLists : Step(p, StartAssets(l, files, now))
  /\ UNCHANGED << blob, store, now, nextId, resp >>

\* verifyHashFromUrl has returned: the publish aborts or goes on to the
\* assets.
Verify(p) ==
  /\ pub[p].pc = "verify"
  /\ pub[p].response # << >>
  /\ LET l == [pub[p] EXCEPT !.response = << >>]
         verification == verifyHashFromUrl(pub[p].response[1], l.bundleHash)
     IN IF ~verification.matches
        THEN Step(p, Fail(l, "integrity"))
        ELSE \E files \in AssetLists : Step(p, StartAssets(l, files, now))
  /\ UNCHANGED << blob, store, now, nextId, resp >>

\* An asset put has been rejected.
AssetPutFails(p) ==
  /\ pub[p].pc = "assets"
  /\ Step(p, Fail(pub[p], "upload"))
  /\ UNCHANGED << blob, store, now, nextId, resp >>

\* An asset put has resolved: the asset is recorded; the next upload is
\* issued or, after the last one, the manifest is assembled.
AssetPut(p) ==
  /\ pub[p].pc = "assets"
  /\ LET l == pub[p]
         file == Head(l.todo)
         req == AssetUpload(l, file)
         asset == [ hash |-> TaggedHash(calculateHash(file.bytes)),
                    key |-> "assets/" \o file.rel,
                    contentType |-> getContentType(file.ext),
                    url |-> req.pathname ]
         l2 == [l EXCEPT !.assets = Append(l.assets, asset),
                         !.todo = Tail(l.todo)]
     IN /\ blob' = PutBlob(blob, req)
        /\ IF l2.todo = << >>
           THEN Step(p, Assemble(l2, now))
           ELSE Step(p, [l2 EXCEPT !.puts = l.puts + 1])
  /\ UNCHANGED << store, now, nextId, resp >>

\* update.save() has been rejected: a duplicate key of the unique index, or
\* the store failing.
SaveFailsLeavingDraft(p) ==
  /\ pub[p].pc = "save"
  /\ store' = Append(store, [UpdateSchema(pub[p]) EXCEPT !.status = "draft"])
  /\ Step(p, Fail(pub[p], "persist"))
  /\ UNCHANGED << blob, now, nextId, resp >>

SaveFails(p) ==
  /\ pub[p].pc = "save"
  /\ \E storeOk \in BOOLEAN :
       /\ storeOk => DuplicateKey(store, UpdateSchema(pub[p]))
       /\ Step(p, Fail(pub[p], IF storeOk THEN "persist-conflict" ELSE "persist"))
  /\ UNCHANGED << blob, store, now, nextId, resp >>

\* update.save() has resolved: the record is in the collection.
Save(p) ==
  /\ pub[p].pc = "save"
  /\ ~DuplicateKey(store, UpdateSchema(pub[p]))
  /\ store' = Append(store, UpdateSchema(pub[p]))
  /\ Step(p, [pub[p] EXCEPT !.pc = "close"])
  /\ UNCHANGED << blob, now, nextId, resp >>

\* mongoose.connection.close() has resolved: the publish has succeeded.
Close(p) ==
  /\ pub[p].pc = "close"
  /\ Step(p, Exit(pub[p], "done", ""))
  /\ UNCHANGED << blob, store, now, nextId, resp >>

\* A millisecond passes.
Tick ==
  /\ now < MaxTime
  /\ now' = now + 1
  /\ UNCHANGED << blob, store, nextId, pub, resp >>

\* ------------------------------------------------- resolution: GET /api/updates
\* a || b on strings: "" stands for an absent (null) or empty value.
Or(a, b) == IF a # "" THEN a ELSE b

\* A request: the expo-runtime-version, expo-platform and expo-channel-name
\* headers, the runtimeVersion, platform and channel query parameters, and
\* the user-agent header.
Request(hRv, qRv, hPl, qPl, hCh, qCh, ua) ==
  [ hRv |-> hRv, qRv |-> qRv, hPl |-> hPl, qPl |-> qPl,
    hCh |-> hCh, qCh |-> qCh, userAgent |-> ua ]

\* route.ts lines 26-29: header, else query parameter, else (channel) the
\* default.
ExtractScope(req) ==
  [ runtimeVersion |-> Or(req.hRv, req.qRv),
    platform |-> Or(req.hPl, req.qPl),
    channel |-> Or(Or(req.hCh, req.qCh), "production") ]

\* The order MongoDB sorts commitTime values in: missing lowest, then
\* numbers, then strings, then dates.
SortKey(v) ==
  CASE v.tag = "undefined" -> 0
    [] v.tag = "number" -> 100 + v.n
    [] v.tag = "iso" -> 200 + v.n
    [] v.tag = "text" -> 299
    [] v.tag = "date" -> 300 + v.n

MatchingAnyStatus(s, scope) ==
  { i \in DOMAIN s :
      SameScope(s[i], scope.runtimeVersion, scope.platform, scope.channel) }

MatchingIgnoringChannel(s, scope) ==
  { i \in DOMAIN s :
      /\ s[i].runtimeVersion = scope.runtimeVersion
      /\ s[i].platform = scope.platform
      /\ s[i].status = "published" }

MatchingExceptDraft(s, scope) ==
  { i \in DOMAIN s :
      /\ SameScope(s[i], scope.runtimeVersion, scope.platform, scope.channel)
      /\ s[i].status # "draft" }

\* findOne({runtimeVersion, platform, channel, status: 'published'}): the
\* documents the filter matches.
Matching(s, scope) ==
  { i \in DOMAIN s :
      /\ SameScope(s[i], scope.runtimeVersion, scope.platform, scope.channel)
      /\ s[i].status = "published" }

FindLastInserted(s, scope) ==
  { i \in Matching(s, scope) : \A j \in Matching(s, scope) : j <= i }

FindOldest(s, scope) ==
  { i \in Matching(s, scope) :
      \A j \in Matching(s, scope) :
        SortKey(s[i].commitTime) <= SortKey(s[j].commitTime) }

\* .sort({commitTime: -1}): the documents findOne can return, none when
\* nothing matches.
FindLatest(s, scope) ==
  { i \in Matching(s, scope) :
      \A j \in Matching(s, scope) :
        SortKey(s[j].commitTime) <= SortKey(s[i].commitTime) }

\* JavaScript truthiness of a stored date-like value.
Truthy(v) ==
  CASE v.tag = "undefined" -> FALSE
    [] v.tag = "number" -> v.n # 0
    [] OTHER -> TRUE

CreatedAtFromManifest(update, t) == update.manifest.createdAt

\* route.ts lines 87-90: commitTime || createdAt || new Date(), then
\* toISOString() of it (of new Date(it) when it is no Date). toISOString
\* throws a RangeError on a date that could not be parsed.
CreatedAtSource(update, t) ==
  IF Truthy(update.commitTime) THEN update.commitTime
  ELSE IF Truthy(update.createdAt) THEN update.createdAt
  ELSE Date(t)

ToISOString(v) ==
  CASE v.tag = "date" -> [threw |-> FALSE, value |-> IsoString(v.n)]
    [] v.tag = "iso" -> [threw |-> FALSE, value |-> IsoString(v.n)]
    [] v.tag = "number" -> [threw |-> FALSE, value |-> IsoString(v.n)]
    [] OTHER -> [threw |-> TRUE, value |-> NoValue]

KeepContentType(asset) == asset

Octet(asset) == [asset EXCEPT !.contentType = "application/octet-stream"]

\* The index of the asset that becomes the launch asset when the manifest has
\* none: the first with key "bundle", else the first asset, else 0.
DerivedLaunchIndex(assets) ==
  IF \E i \in DOMAIN assets : assets[i].key = "bundle"
  THEN CHOOSE i \in DOMAIN assets :
         /\ assets[i].key = "bundle"
         /\ \A j \in 1..(i - 1) : assets[j].key # "bundle"
  ELSE IF Len(assets) > 0 THEN 1 ELSE 0

\* route.ts lines 133-138: the launch asset is put in front of assets unless
\* an asset has its url or its key.
WithLaunchAsset(assets, la) ==
  IF \E i \in DOMAIN assets : assets[i].url = la.url \/ assets[i].key = la.key
  THEN assets
  ELSE << la >> \o assets

KeepAbsent(v) == v

\* route.ts lines 140-143: manifest.metadata || {} and manifest.extra || {}.
OrEmptyObject(v) == IF v = Undefined THEN "{}" ELSE v

CacheControlPrivate == { << "Cache-Control", "private, max-age=0" >> }

NoCacheHeaders ==
  { << "Cache-Control", "no-store, no-cache, must-revalidate, proxy-revalidate" >>,
    << "Pragma", "no-cache" >>,
    << "Expires", "0" >> }

NoRequest == Request("", "", "", "", "", "", "")

\* A response: kind is "json" (a body), "empty" (a null body) or "exception"
\* (the handler threw); error is the body's error message, manifest the body
\* when it is a manifest. queries counts the store queries issued, record is
\* the position in the collection of the document the manifest was built
\* from.
Response(kind, status, error, manifest, headers, queries, record) ==
  [ kind |-> kind, status |-> status, error |-> error, manifest |-> manifest,
    headers |-> headers, queries |-> queries, record |-> record ]

\* A response with its request: dbUp, and asOf, the number of documents the
\* collection held when the request was answered.
Answer(req, dbUp, asOf, r) ==
  [ kind |-> r.kind, status |-> r.status, error |-> r.error,
    manifest |-> r.manifest, headers |-> r.headers, queries |-> r.queries,
    record |-> r.record, req |-> req, dbUp |-> dbUp, asOf |-> asOf ]

NoResponse ==
  Answer(NoRequest, TRUE, 0, Response("none", 0, "", << >>, {}, 0, 0))

\* route.ts lines 78-161: the manifest built from the document found.
NormalizeManifest(update, i, runtimeVersion, uuid, t) ==
  LET m0 == update.manifest
      iso == ToISOString(CreatedAtSource(update, t))
      k == DerivedLaunchIndex(m0.assets)
      derived == m0.launchAsset = << >>
      la == IF derived THEN Octet(m0.assets[k]) ELSE Octet(m0.launchAsset[1])
      assets == IF derived THEN [m0.assets EXCEPT ![k] = la] ELSE m0.assets
  IN IF iso.threw
     THEN Response("exception", 0, "RangeError", << >>, {}, 1, i)
     ELSE IF derived /\ k = 0
     THEN Response("json", 500, "Invalid manifest: missing launchAsset", << >>,
                   {<< "Content-Type", "application/json" >>} \cup NoCacheHeaders,
                   1, i)
     ELSE Response("json", 200, "",
            << [ id |-> IF isUUID(update.id) THEN update.id ELSE uuid,
                 createdAt |-> iso.value,
                 runtimeVersion |-> runtimeVersion,
                 launchAsset |-> << la >>,
                 assets |-> WithLaunchAsset(assets, la),
                 hasAssets |-> TRUE,
                 metadata |-> OrEmptyObject(m0.metadata),
                 extra |-> OrEmptyObject(m0.extra) ] >>,
            { << "Content-Type", "application/json" >>,
              << "expo-protocol-version", "1" >>,
              << "expo-sfv-version", "0" >> } \cup NoCacheHeaders,
            1, i)

\* route.ts GET (lines 21-162): the responses to req with the collection s,
\* dbUp telling whether connectDB and the query succeed, uuid being what
\* randomUUID returns and t the clock.
GET(req, dbUp, s, uuid, t) ==
  LET scope == ExtractScope(req)
  IN IF ~dbUp
     THEN { Response("exception", 0, "MongoError", << >>, {}, 0, 0) }
     ELSE IF scope.runtimeVersion = "" \/ scope.platform = ""
     THEN { Response("json", 400,
                     "Missing required parameters: runtimeVersion and platform",
                     << >>,
                     {<< "Content-Type", "application/json" >>} \cup NoCacheHeaders,
                     0, 0) }
     ELSE IF FindLatest(s, scope) = {}
     THEN { Response("empty", 204, "", << >>,
                     {<< "expo-protocol-version", "1" >>} \cup NoCacheHeaders,
                     1, 0) }
     ELSE { NormalizeManifest(s[i], i, scope.runtimeVersion, uuid, t) :
              i \in FindLatest(s, scope) }

\* The requests made of the endpoint while publishes run.
Requests ==
  { Request("1.0.0", "", "android", "", "", "", ""),
    Request("", "1.0.0", "", "ios", "", "production", "") }

RespondAndStamp(requests) ==
  /\ \E req \in requests, dbUp \in BOOLEAN, uuid \in RandomUuids :
       \E r \in GET(req, dbUp, store, uuid, now) :
         /\ resp' = Answer(req, dbUp, Len(store), r)
         /\ store' = IF r.record \in DOMAIN store
                     THEN [store EXCEPT ![r.record].id = uuid]
                     ELSE store
  /\ UNCHANGED << blob, now, nextId, pub >>

\* A resolution request is answered.
Respond(requests) ==
  /\ \E req \in requests, dbUp \in BOOLEAN, uuid \in RandomUuids :
       \E r \in GET(req, dbUp, store, uuid, now) :
         resp' = Answer(req, dbUp, Len(store), r)
  /\ UNCHANGED << blob, store, now, nextId, pub >>

Resolve == Respond(Requests)

Init ==
  /\ blob = << >>
  /\ store = << >>
  /\ now = 0
  /\ nextId = 0
  /\ pub = [p \in Procs |-> Idle]
  /\ resp = NoResponse

Publish(p) ==
  \/ Start(p) \/ ConnectFails(p) \/ Export(p)
  \/ BundlePutFails(p) \/ BundlePut(p) \/ Refetch(p) \/ Verify(p)
  \/ AssetPutFails(p) \/ AssetPut(p)
  \/ SaveFails(p) \/ Save(p) \/ Close(p)

Next == Tick \/ Resolve \/ \E p \in Procs : Publish(p)

Spec == Init /\ [][Next]_vars

\* ------------------------------------- resolution over what a store can hold
\* The documents lean() can hand the endpoint: written by this pipeline, by
\* its earlier revisions or by other tools. One field varies at a time around
\* a document of the current pipeline.
RawAsset(key, ct, k) ==
  [ hash |-> TaggedHash(calculateHash(k)), key |-> key, contentType |-> ct,
    url |-> << UuidTable[k], key >> ]

\* kind "current": as publish.ts assembles it; "legacy": the earlier
\* pipeline's (non-UUID id, numeric createdAt, no metadata/extra); "nested":
\* no launchAsset, the bundle listed second with a JavaScript content type;
\* "no-bundle": no launchAsset and no asset with key bundle; "empty": an empty
\* assets array; "bare": no launchAsset and no assets field; "launch-only": a
\* launchAsset and no assets field.
RawManifest(kind, k) ==
  LET bundle == RawAsset("bundle", "application/octet-stream", k)
      jsBundle == RawAsset("bundle", "application/javascript", k)
      image == RawAsset("assets/a.png", "image/png", k)
  IN CASE kind = "current" ->
            [ id |-> UuidTable[k], createdAt |-> IsoString(1),
              runtimeVersion |-> "1.0.0", launchAsset |-> << bundle >>,
              assets |-> << bundle, image >>, hasAssets |-> TRUE,
              metadata |-> "{}", extra |-> "{}" ]
       [] kind = "legacy" ->
            [ id |-> "0123456789abcdef0123456789abcdef",
              createdAt |-> Number(1),
              runtimeVersion |-> "0.9.0", launchAsset |-> << jsBundle >>,
              assets |-> << jsBundle, image >>, hasAssets |-> TRUE,
              metadata |-> Undefined, extra |-> Undefined ]
       [] kind = "nested" ->
            [ id |-> UuidTable[k], createdAt |-> Number(1),
              runtimeVersion |-> "1.0.0", launchAsset |-> << >>,
              assets |-> << image, jsBundle >>, hasAssets |-> TRUE,
              metadata |-> Undefined, extra |-> "{}" ]
       [] kind = "no-bundle" ->
            [ id |-> UuidTable[k], createdAt |-> NoValue,
              runtimeVersion |-> "1.0.0", launchAsset |-> << >>,
              assets |-> << image >>, hasAssets |-> TRUE,
              metadata |-> "{}", extra |-> Undefined ]
       [] kind = "empty" ->
            [ id |-> UuidTable[k], createdAt |-> IsoString(1),
              runtimeVersion |-> "1.0.0", launchAsset |-> << >>,
              assets |-> << >>, hasAssets |-> TRUE,
              metadata |-> "{}", extra |-> "{}" ]
       [] kind = "bare" ->
            [ id |-> UuidTable[k], createdAt |-> IsoString(1),
              runtimeVersion |-> "1.0.0", launchAsset |-> << >>,
              assets |-> << >>, hasAssets |-> FALSE,
              metadata |-> "{}", extra |-> "{}" ]
       [] kind = "launch-only" ->
            [ id |-> UuidTable[k], createdAt |-> IsoString(1),
              runtimeVersion |-> "1.0.0", launchAsset |-> << jsBundle >>,
              assets |-> << >>, hasAssets |-> FALSE,
              metadata |-> "{}", extra |-> "{}" ]

ManifestKinds ==
  {"current", "legacy", "nested", "no-bundle", "empty", "bare", "launch-only"}

RawScopes ==
  { [runtimeVersion |-> "1.0.0", platform |-> "android", channel |-> "production"],
    [runtimeVersion |-> "1.0.0", platform |-> "android", channel |-> "staging"],
    [runtimeVersion |-> "1.0.0", platform |-> "ios", channel |-> "production"],
    [runtimeVersion |-> "2.0.0", platform |-> "android", channel |-> "production"] }

Statuses == {"draft", "published", "rolled_back"}

RawIds == {Undefined, UuidTable[3], "0123456789abcdef0123456789abcdef", "update-7"}

RawCommitTimes ==
  {Date(1), Date(2), NoValue, IsoString(1), Text(0), Number(0), Number(1)}

RawCreatedAts == {Date(3), NoValue, Text(0)}

RawRecord(scope, status, id, commitTime, createdAt, kind, k) ==
  [ id |-> id, runtimeVersion |-> scope.runtimeVersion,
    platform |-> scope.platform, channel |-> scope.channel,
    status |-> status, commitTime |-> commitTime,
    manifest |-> RawManifest(kind, k), createdAt |-> createdAt ]

\* One document: any values in its identifier and date fields, or any of the
\* manifest shapes.
OneRecordStores ==
  LET scope == [runtimeVersion |-> "1.0.0", platform |-> "android",
                channel |-> "production"]
  IN { << RawRecord(scope, "published", id, ct, ca, "current", 1) >> :
         id \in RawIds, ct \in RawCommitTimes, ca \in RawCreatedAts }
     \cup
     { << RawRecord(scope, "published", Undefined, Date(1), Date(1), kind, 1) >> :
         kind \in ManifestKinds }

\* Two documents of the current pipeline, any scopes, statuses and commit
\* instants the unique index allows.
TwoRecordStores ==
  { s \in
      { << RawRecord(sc1, st1, Undefined, Date(t1), Date(t1), "current", 1),
           RawRecord(sc2, st2, Undefined, Date(t2), Date(t2), "current", 2) >> :
          sc1 \in RawScopes, sc2 \in RawScopes, st1 \in Statuses,
          st2 \in Statuses, t1 \in 1..2, t2 \in 1..2 } :
      ~DuplicateKey(<< s[1] >>, s[2]) }

\* The requests of the resolution specification: scope fields from headers,
\* from the query, from both and from neither; an unknown platform.
AllRequests ==
  { Request("1.0.0", "", "android", "", "", "", ""),
    Request("1.0.0", "", "android", "", "staging", "", ""),
    Request("", "1.0.0", "", "ios", "", "production", ""),
    Request("", "2.0.0", "", "android", "", "", ""),
    Request("1.0.0", "2.0.0", "android", "ios", "staging", "production", ""),
    Request("", "", "android", "", "", "", ""),
    Request("1.0.0", "", "", "", "", "production", ""),
    Request("1.0.0", "", "", "windows", "", "", ""),
    Request("1.0.0", "", "", "", "", "", "okhttp/4.9.2 (Android 14)") }

InitResolve ==
  /\ blob = << >>
  /\ store \in OneRecordStores \cup TwoRecordStores \cup { << >> }
  /\ now = 0
  /\ nextId = 0
  /\ pub = [p \in Procs |-> Idle]
  /\ resp = NoResponse

ResolveAny == Respond(AllRequests)

SpecResolve == InitResolve /\ [][ResolveAny]_vars

\* ------------------------------------------- publishing, resolution, migration
MigratedStoreAndManifest(s, written) ==
  [ i \in DOMAIN s |->
      IF s[i].id = Undefined /\ written
      THEN [ s[i] EXCEPT !.id = MigrationUuids[i],
                         !.manifest.id = MigrationUuids[i] ]
      ELSE s[i] ]

\* scripts/migrate-updates.ts: every document whose id is missing or null is
\* sent updateOne({_id}, {$set: {id: randomUUID()}}) through the Update
\* model. written tells whether the $set reaches the document: the model's
\* strict schema removes paths it does not declare from an update, and the
\* schema revisions differ in declaring id.
MigratedStore(s, written) ==
  [ i \in DOMAIN s |->
      IF s[i].id = Undefined /\ written
      THEN [ s[i] EXCEPT !.id = MigrationUuids[i] ]
      ELSE s[i] ]

Migrate ==
  /\ \E written \in BOOLEAN : store' = MigratedStore(store, written)
  /\ UNCHANGED << blob, now, nextId, pub, resp >>

\* A document that was in the store before the current pipeline: no
\* commitTime, no id, the bundle with a JavaScript content type.
LegacyRecord ==
  RawRecord([runtimeVersion |-> "1.0.0", platform |-> "android",
             channel |-> "production"],
            "published", Undefined, NoValue, Date(0), "legacy", 4)

InitWithLegacy ==
  /\ blob = << >>
  /\ store = << LegacyRecord >>
  /\ now = 0
  /\ nextId = 0
  /\ pub = [p \in Procs |-> Idle]
  /\ resp = NoResponse

NextWithMigration == Next \/ Migrate

SpecWithMigration == InitWithLegacy /\ [][NextWithMigration]_vars

\* Resolution and migration over the stores of InitResolve.
NextStored == ResolveAny \/ Migrate

SpecStored == InitResolve /\ [][NextStored]_vars

\* ------------------------------------------------------------------ claims
\* The record a publish has persisted: the one whose manifest carries the
\* publish's identifier.
RecordsOf(id) == { i \in DOMAIN store : store[i].manifest.id = id }

Persisted(p) == pub[p].pc \in {"close", "done"}

\* C1: for every publish that has persisted its record, the bytes stored at
\* the bundle asset's url hash to the digest in the bundle asset's hash field.
C1_ServedBundleHashesToRecordedDigest ==
  \A p \in Procs :
    Persisted(p) =>
      \A i \in RecordsOf(pub[p].updateId) :
        LET la == store[i].manifest.launchAsset[1]
        IN /\ la.url \in DOMAIN blob
           /\ TaggedHash(calculateHash(blob[la.url].body)) = la.hash

\* C2: every blob is stored at a pathname <root>/<identifier>/<relative path>
\* and no pathname is written more than once.
C2_PathsNamespacedAndWrittenOnce ==
  \A path \in DOMAIN blob :
    /\ Len(path) = 3
    /\ path[2] \in { UuidTable[i] : i \in DOMAIN UuidTable }
    /\ blob[path].writes = 1

UniqueCommitTimes ==
  \A i, j \in DOMAIN store :
    ( /\ i # j
      /\ SameScope(store[i], store[j].runtimeVersion, store[j].platform,
                   store[j].channel) )
      => store[i].commitTime # store[j].commitTime

C4_CommitInstantUniquePerScope ==
  /\ [] UniqueCommitTimes
  /\ [][ \A p \in Procs :
           ( /\ pub[p].pc = "save"
             /\ pub'[p] # pub[p]
             /\ \E i \in DOMAIN store :
                  /\ SameScope(store[i], pub[p].runtimeVersion,
                               pub[p].platform, pub[p].channel)
                  /\ store[i].commitTime = pub[p].commitTime )
           => (pub'[p].pc = "failed" /\ store' = store) ]_vars

C4_Witness ==
  \E p \in Procs :
    /\ pub[p].pc = "failed"
    /\ pub[p].err = "persist-conflict"
    /\ \E i \in DOMAIN store :
         /\ SameScope(store[i], pub[p].runtimeVersion, pub[p].platform,
                      pub[p].channel)
         /\ store[i].commitTime = pub[p].commitTime

\* The collection as it was when the last request was answered (documents are
\* only ever appended).
StoreThen == SubSeq(store, 1, resp.asOf)

Asked == ExtractScope(resp.req)

ValidScope(scope) ==
  scope.runtimeVersion # "" /\ scope.platform \in Platforms

\* C5: every publish that succeeded has its record (its scope, its commit
\* instant, status published), and a resolution of a scope that has published
\* records returns the manifest of the one with the greatest commit instant.
C5_ResolvesGreatestCommitInstant ==
  /\ \A p \in Procs :
       pub[p].pc = "done" =>
         \E i \in RecordsOf(pub[p].updateId) :
           /\ SameScope(store[i], pub[p].runtimeVersion, pub[p].platform,
                        pub[p].channel)
           /\ store[i].commitTime = pub[p].commitTime
           /\ store[i].status = "published"
  /\ ( /\ resp.kind # "none"
       /\ resp.dbUp
       /\ ValidScope(Asked)
       /\ Matching(StoreThen, Asked) # {} )
     => /\ resp.status = 200
        /\ resp.record \in Matching(StoreThen, Asked)
        /\ \A j \in Matching(StoreThen, Asked) :
             store[j].commitTime.n <= store[resp.record].commitTime.n
        /\ resp.manifest[1].createdAt
             = IsoString(store[resp.record].commitTime.n)
        /\ resp.manifest[1].launchAsset
             = << Octet(store[resp.record].manifest.launchAsset[1]) >>
        /\ resp.manifest[1].assets = store[resp.record].manifest.assets

\* Two records of the scope asked for, the later commit persisted first, and
\* the first one resolved.
C5_Witness ==
  /\ resp.status = 200
  /\ resp.asOf = 2
  /\ Matching(StoreThen, Asked) = {1, 2}
  /\ store[1].commitTime.n > store[2].commitTime.n
  /\ resp.record = 1
  /\ \A p \in Procs : pub[p].pc = "done"

\* C6: for every published record a request matches, whatever its id,
\* commitTime and createdAt hold, the handler does not throw and the manifest
\* it returns has an id of UUID syntax and an ISO-8601 createdAt.
C6_NormalizationTotal ==
  ( resp.kind # "none" /\ resp.record # 0 )
    => /\ resp.kind # "exception"
       /\ resp.status = 200
            => /\ isUUID(resp.manifest[1].id)
               /\ resp.manifest[1].createdAt.tag = "iso"

\* A manifest that may be sent: UUID id, ISO createdAt, a launch asset that
\* is also listed in assets.
WellFormedManifest(m) ==
  /\ isUUID(m.id)
  /\ m.createdAt.tag = "iso"
  /\ Len(m.launchAsset) = 1
  /\ \E i \in DOMAIN m.assets : m.assets[i].key = m.launchAsset[1].key

\* C7: every request ends in a valid manifest, the explicit empty result, a
\* structured client error or a structured server error; nothing is thrown
\* out of the handler.
C7_EveryRequestEndsInStructuredResponse ==
  resp.kind # "none" =>
    \/ /\ resp.kind = "json" /\ resp.status = 200
       /\ Len(resp.manifest) = 1
       /\ WellFormedManifest(resp.manifest[1])
    \/ /\ resp.kind = "empty" /\ resp.status = 204
    \/ /\ resp.kind = "json" /\ resp.status = 400 /\ resp.error # ""
    \/ /\ resp.kind = "json" /\ resp.status = 500 /\ resp.error # ""

\* The documents with status published in exactly the scope asked for, at the
\* time the request was answered.
PublishedInScope ==
  { i \in DOMAIN StoreThen :
      /\ StoreThen[i].runtimeVersion = Asked.runtimeVersion
      /\ StoreThen[i].platform = Asked.platform
      /\ StoreThen[i].channel = Asked.channel
      /\ StoreThen[i].status = "published" }

InScopeOnly ==
  SelectSeq(StoreThen,
            LAMBDA r : SameScope(r, Asked.runtimeVersion, Asked.platform,
                                 Asked.channel))

\* A response without the position of the document it was built from.
Sent(r) ==
  [ kind |-> r.kind, status |-> r.status, error |-> r.error,
    manifest |-> r.manifest, headers |-> r.headers ]

\* C9: a manifest is built from a record whose runtimeVersion, platform and
\* channel equal the requested ones, and the response is the one the same
\* request gets from the collection without the records of other scopes.
C9_OnlyRequestedScope ==
  /\ resp.status = 200
       => /\ resp.record \in DOMAIN StoreThen
          /\ StoreThen[resp.record].runtimeVersion = Asked.runtimeVersion
          /\ StoreThen[resp.record].platform = Asked.platform
          /\ StoreThen[resp.record].channel = Asked.channel
  /\ ( resp.kind # "none" /\ resp.dbUp )
       => \E uuid \in RandomUuids :
            \E r \in GET(resp.req, TRUE, InScopeOnly, uuid, now) :
              Sent(r) = Sent(resp)

\* A manifest is returned while a record of another scope is published with a
\* later commit instant.
C9_Witness ==
  /\ resp.status = 200
  /\ \E i \in DOMAIN StoreThen :
       /\ ~SameScope(StoreThen[i], Asked.runtimeVersion, Asked.platform,
                     Asked.channel)
       /\ StoreThen[i].status = "published"
       /\ SortKey(StoreThen[i].commitTime)
            > SortKey(StoreThen[resp.record].commitTime)

\* C10: an android publish goes on to its uploads only with a .hbc bundle;
\* one that ends with the format violation has made no upload call, drawn no
\* identifier and commit instant, and the step it fails on changes neither
\* the blob store nor the records.
C10_AndroidRequiresBinaryBeforeUpload ==
  /\ [] ( \A p \in Procs :
            /\ ( /\ pub[p].platform = "android"
                 /\ pub[p].pc \in {"upload", "verify", "assets", "save"} )
                 => pub[p].bundleExtension = "hbc"
            /\ pub[p].err = "format"
                 => /\ pub[p].pc = "failed"
                    /\ pub[p].platform = "android"
                    /\ pub[p].puts = 0
                    /\ pub[p].updateId = Undefined
                    /\ pub[p].commitTime = NoValue )
  /\ [][ \A p \in Procs :
           ( pub[p].err # "format" /\ pub'[p].err = "format" )
             => ( blob' = blob /\ store' = store ) ]_vars

\* One publish has ended with the format violation while another has
\* uploaded and persisted.
C10_Witness ==
  /\ \E p \in Procs : pub[p].pc = "failed" /\ pub[p].err = "format"
  /\ Len(store) > 0

\* C11: a request whose platform is present and is neither ios nor android
\* is answered with a client error and without a store query.
C11_UnknownPlatformRejectedBeforeQuery ==
  ( /\ resp.kind # "none"
    /\ Asked.platform # ""
    /\ Asked.platform \notin Platforms )
  => /\ resp.kind = "json"
     /\ resp.status = 400
     /\ resp.error # ""
     /\ resp.queries = 0

\* C12: a request from which runtimeVersion or platform cannot be obtained is
\* answered 400 with the message naming the missing fields, whatever the
\* state of the store, and no query is issued for it.
C12_MissingFieldsRejectedWithoutStore ==
  ( /\ resp.kind # "none"
    /\ ( Asked.runtimeVersion = "" \/ Asked.platform = "" ) )
  => /\ resp.kind = "json"
     /\ resp.status = 400
     /\ resp.error = "Missing required parameters: runtimeVersion and platform"
     /\ resp.queries = 0

\* C13: every response the handler returns (manifest, no-update, invalid
\* request, internal failure) carries Cache-Control no-store, no-cache,
\* must-revalidate, with Pragma no-cache and Expires 0; the manifest and the
\* no-update responses carry expo-protocol-version.
C13_ResponsesDisableCaching ==
  resp.kind \in {"json", "empty"}
  => /\ << "Cache-Control",
           "no-store, no-cache, must-revalidate, proxy-revalidate" >>
          \in resp.headers
     /\ << "Pragma", "no-cache" >> \in resp.headers
     /\ << "Expires", "0" >> \in resp.headers
     /\ \A h \in resp.headers : h[1] = "Cache-Control" => h[2] # "private, max-age=0"
     /\ resp.status \in {200, 204}
          => << "expo-protocol-version", "1" >> \in resp.headers

\* The internal-failure response: a matched record whose manifest cannot be
\* given a launch asset.
C13_Witness ==
  /\ resp.kind = "json"
  /\ resp.status = 500
  /\ resp.record # 0
  /\ << "Expires", "0" >> \in resp.headers

\* The stored manifest of the record the last response was built from.
StoredManifest == StoreThen[resp.record].manifest

\* C14: when the matched record's manifest has no launchAsset, the asset with
\* key "bundle" becomes the launch asset; when no asset has that key (the
\* assets may be empty or absent) the response is the structured server error
\* and carries no manifest.
C14_LaunchAssetDerivedFromBundleOrServerError ==
  ( /\ resp.kind # "none"
    /\ resp.record # 0
    /\ StoredManifest.launchAsset = << >> )
  => IF \E i \in DOMAIN StoredManifest.assets :
          StoredManifest.assets[i].key = "bundle"
     THEN /\ resp.status = 200
          /\ resp.manifest[1].launchAsset[1].key = "bundle"
     ELSE /\ resp.kind = "json"
          /\ resp.status = 500
          /\ resp.error # ""
          /\ resp.manifest = << >>

\* C15: the manifest returned for a record the publish pipeline persisted
\* carries the identifier the pipeline generated for that record (the one it
\* passed as the record's id and wrote into the manifest), and what is
\* returned is always of UUID syntax.
C15_ManifestIdIsRecordIdentifier ==
  resp.status = 200
  => /\ isUUID(resp.manifest[1].id)
     /\ \A p \in Procs :
          resp.record \in RecordsOf(pub[p].updateId)
            => resp.manifest[1].id = pub[p].updateId

\* C16: every manifest returned has a launch asset of content type
\* application/octet-stream and an assets collection with an entry for the
\* launch asset (its key or its url); for a record the pipeline persisted, as
\* after publishing to (1.0.0, android, production) and resolving that scope,
\* the launch asset itself is an element of assets.
C16_LaunchAssetOctetStreamAndInAssets ==
  resp.status = 200
  => LET m == resp.manifest[1]
         la == m.launchAsset[1]
     IN /\ Len(m.launchAsset) = 1
        /\ la.contentType = "application/octet-stream"
        /\ \E i \in DOMAIN m.assets :
             m.assets[i].key = la.key \/ m.assets[i].url = la.url
        /\ ( \E p \in Procs : resp.record \in RecordsOf(pub[p].updateId) )
             => \E i \in DOMAIN m.assets : m.assets[i] = la

\* A publish to (1.0.0, android, production) has completed and that scope has
\* been resolved to its record.
C16_Witness ==
  /\ resp.status = 200
  /\ Asked = [runtimeVersion |-> "1.0.0", platform |-> "android",
              channel |-> "production"]
  /\ \E p \in Procs :
       /\ pub[p].pc = "done"
       /\ pub[p].platform = "android"
       /\ resp.record \in RecordsOf(pub[p].updateId)
  /\ resp.manifest[1].launchAsset[1].contentType = "application/octet-stream"

MatchedRecord == StoreThen[resp.record]

\* C18 as stated: the createdAt of every manifest returned is the ISO-8601
\* rendering of the matched record's commitTime.
C18_CreatedAtIsCommitInstant ==
  resp.status = 200
  => /\ MatchedRecord.commitTime.tag \in {"date", "iso", "number"}
     /\ resp.manifest[1].createdAt = IsoString(MatchedRecord.commitTime.n)

\* C18: the createdAt of a manifest returned is the ISO-8601 rendering of the
\* matched record's commitTime when the record has one, whatever createdAt
\* the stored manifest holds; for a record without commitTime it is the
\* rendering of the record's createdAt, or of the time of the request when
\* that is missing too.
C18_CreatedAtIsCommitInstantOrFallback ==
  resp.status = 200
  => resp.manifest[1].createdAt =
       IF MatchedRecord.commitTime.tag # "undefined"
          /\ MatchedRecord.commitTime # Number(0)
       THEN IsoString(MatchedRecord.commitTime.n)
       ELSE IF MatchedRecord.createdAt.tag # "undefined"
       THEN IsoString(MatchedRecord.createdAt.n)
       ELSE IsoString(now)

\* A manifest is returned whose stored createdAt is not the rendering of the
\* record's commit instant.
C18_Witness ==
  /\ resp.status = 200
  /\ MatchedRecord.commitTime.tag = "date"
  /\ StoredManifest.createdAt # IsoString(MatchedRecord.commitTime.n)
  /\ resp.manifest[1].createdAt = IsoString(MatchedRecord.commitTime.n)

\* C19: a manifest is only ever built from a record with status published;
\* a request the store answers gets the published record of its scope with
\* the greatest commit instant, whatever rolled_back or draft records the
\* scope holds, and the no-update signal when the scope has no published
\* record; no step takes a record out of rolled_back.
C19_OnlyPublishedResolvable ==
  /\ [] ( resp.record # 0 => MatchedRecord.status = "published" )
  /\ [] ( ( resp.kind # "none" /\ resp.dbUp /\ ValidScope(Asked) )
          => IF PublishedInScope = {}
             THEN resp.kind = "empty" /\ resp.record = 0
             ELSE /\ resp.record \in PublishedInScope
                  /\ \A j \in PublishedInScope :
                       SortKey(StoreThen[j].commitTime)
                         <= SortKey(MatchedRecord.commitTime) )
  /\ [][ \A i \in DOMAIN store :
           store[i].status = "rolled_back"
             => ( i \in DOMAIN store' /\ store'[i].status = "rolled_back" ) ]_vars

\* The record of the scope with the greatest commit instant is rolled back,
\* the store has been migrated, and the scope resolves to its published
\* record.
C19_Witness ==
  /\ resp.status = 200
  /\ \E j \in DOMAIN StoreThen :
       /\ SameScope(StoreThen[j], Asked.runtimeVersion, Asked.platform,
                    Asked.channel)
       /\ StoreThen[j].status = "rolled_back"
       /\ StoreThen[j].id # Undefined
       /\ SortKey(StoreThen[j].commitTime) > SortKey(MatchedRecord.commitTime)

\* C20: a record with status published stays in the store with the manifest
\* it was persisted with, whatever step is taken: a resolution, a step of a
\* later publish, a run of the migration script.
C20_PublishedManifestImmutable ==
  [][ \A i \in DOMAIN store :
        store[i].status = "published"
          => /\ i \in DOMAIN store'
             /\ store'[i].manifest = store[i].manifest
             /\ store'[i].status = "published" ]_vars

\* A record the pipeline persisted has been given an id by the migration, a
\* later publish has persisted its own record, and the first has been
\* resolved.
C20_Witness ==
  /\ Len(store) >= 3
  /\ \E i \in DOMAIN store :
       /\ i < Len(store)
       /\ store[i].id = MigrationUuids[i]
       /\ \E p \in Procs : i \in RecordsOf(pub[p].updateId)
       /\ resp.status = 200
       /\ resp.record = i

\* C21: a publish that has got past its save, and one that has reported
\* success, has exactly one record: status published, the scope the publish
\* was given, its commit instant, and the manifest it assembled.
C21_SuccessMeansOneRecord ==
  \A p \in Procs :
    pub[p].pc \in {"close", "done"}
    => /\ Cardinality(RecordsOf(pub[p].updateId)) = 1
       /\ \A i \in RecordsOf(pub[p].updateId) :
            /\ store[i].status = "published"
            /\ store[i].runtimeVersion = pub[p].runtimeVersion
            /\ store[i].platform = pub[p].platform
            /\ store[i].channel = pub[p].channel
            /\ store[i].commitTime = pub[p].commitTime
            /\ store[i].commitTime.tag = "date"
            /\ store[i].manifest.createdAt = IsoString(pub[p].commitTime.n)
            /\ pub[p].pc = "close" => store[i].manifest = pub[p].manifest[1]

\* Both publishes have reported success.
C21_Witness ==
  /\ \A p \in Procs : pub[p].pc = "done"
  /\ Len(store) = NumPublishers

\* The response confirms the digest: an HTTP success, no content encoding
\* other than identity, and bytes that hash to the digest.
Confirms(response, digest) ==
  /\ ~response.threw
  /\ response.ok
  /\ response.contentEncoding \in {"", "identity"}
  /\ calculateHash(response.body) = digest

\* C22: a publish issues the integrity re-fetch at most once, for a binary
\* bundle exactly once: after the bundle upload has completed and while the
\* publish has no record. When the response does not confirm the digest the
\* publish fails on that step, with no further fetch and no record; when it
\* does, the publish goes on.
C22_IntegrityCheckedOnceBeforePersisting ==
  /\ [] ( \A p \in Procs :
            /\ pub[p].fetches <= 1
            /\ pub[p].pc = "verify"
                 => /\ pub[p].isBinary
                    /\ pub[p].fetches = 1
                    /\ pub[p].bundleUrl \in DOMAIN blob
                    /\ RecordsOf(pub[p].updateId) = {}
            /\ pub[p].pc \in {"assets", "save", "close"}
                 => pub[p].fetches = IF pub[p].isBinary THEN 1 ELSE 0
            /\ pub[p].err = "integrity"
                 => /\ pub[p].pc = "failed"
                    /\ pub[p].fetches = 1
                    /\ RecordsOf(pub[p].updateId) = {} )
  /\ [][ \A p \in Procs :
           ( /\ pub[p].pc = "verify"
             /\ pub[p].response # << >>
             /\ pub'[p] # pub[p] )
           => IF Confirms(pub[p].response[1], pub[p].bundleHash)
              THEN pub'[p].pc \in {"assets", "save"}
              ELSE /\ pub'[p].pc = "failed"
                   /\ pub'[p].err = "integrity"
                   /\ pub'[p].fetches = 1
                   /\ store' = store
                   /\ blob' = blob ]_vars

\* A publish has failed its integrity check after one upload and one fetch,
\* while the store holds the record of another publish.
C22_Witness ==
  \E p \in Procs :
    /\ pub[p].pc = "failed"
    /\ pub[p].err = "integrity"
    /\ pub[p].fetches = 1
    /\ pub[p].puts = 1
    /\ Len(store) > 0

\* Two publishes have taken the same commit instant in the same scope.
Collide(p, q) ==
  /\ p # q
  /\ pub[p].commitTime.tag = "date"
  /\ pub[p].commitTime = pub[q].commitTime
  /\ pub[p].runtimeVersion = pub[q].runtimeVersion
  /\ pub[p].platform = pub[q].platform
  /\ pub[p].channel = pub[q].channel

\* The store has answered the save of the publish: it inserted the record or
\* refused it as a duplicate.
SaveAnswered(p) ==
  \/ pub[p].pc \in {"close", "done"}
  \/ pub[p].pc = "failed" /\ pub[p].err = "persist-conflict"

\* The records of the scope and commit instant of a publish.
RecordsAt(p) ==
  { i \in DOMAIN store :
      /\ SameScope(store[i], pub[p].runtimeVersion, pub[p].platform,
                   pub[p].channel)
      /\ store[i].commitTime = pub[p].commitTime }

\* C23: of two publishes to one scope that take the same commit instant, the
\* store never holds more than one record for that instant; once it has
\* answered both saves (no third publish sharing the instant), exactly one of
\* the two has persisted its record and
\* the other has failed; and the save that finds the instant free inserts,
\* the one that finds it taken fails.
C23_SameInstantOnePersists ==
  /\ [] ( \A p, q \in Procs :
            Collide(p, q)
            => /\ Cardinality(RecordsAt(p)) <= 1
               /\ ( /\ SaveAnswered(p)
                    /\ SaveAnswered(q)
                    /\ \A r \in Procs \ {p, q} : ~Collide(p, r) )
                    => /\ Cardinality(RecordsAt(p)) = 1
                       /\ Persisted(p) # Persisted(q)
                       /\ ~Persisted(p) => pub[p].err = "persist-conflict" )
  /\ [][ \A p, q \in Procs :
           ( /\ Collide(p, q)
             /\ pub[p].pc = "save"
             /\ pub'[p] # pub[p]
             /\ pub'[p].err # "persist" )
           => IF RecordsAt(p) = {}
              THEN /\ pub'[p].pc = "close"
                   /\ store' = Append(store, UpdateSchema(pub[p]))
              ELSE /\ pub'[p].pc = "failed"
                   /\ pub'[p].err = "persist-conflict"
                   /\ store' = store ]_vars

\* Two publishes of one scope and one commit instant have both ended: one
\* succeeded, the other was refused as a duplicate.
C23_Witness ==
  \E p, q \in Procs :
    /\ Collide(p, q)
    /\ pub[p].pc = "done"
    /\ pub[q].pc = "failed"
    /\ pub[q].err = "persist-conflict"
    /\ Cardinality(RecordsAt(p)) = 1

ScopeOf(l) ==
  [ runtimeVersion |-> l.runtimeVersion, platform |-> l.platform,
    channel |-> l.channel ]

\* What the endpoint can answer, over a collection s, to a request for the
\* scope of a command line.
Resolutions(s, cli) ==
  UNION { GET(Request("", cli.runtimeVersion, "", cli.platform, "",
                      cli.channel, ""), TRUE, s, uuid, now) :
            uuid \in RandomUuids }

\* C24: a publish is never refused as a duplicate because of a record of
\* another scope: a publish refused by the unique index has a record of its
\* own scope at its commit instant, a save that finds no such record inserts
\* its record whatever the other scopes hold, and the insert leaves what the
\* endpoint answers for every other scope as it was.
C24_DifferentScopesIndependent ==
  /\ [] ( \A p \in Procs :
            /\ pub[p].err = "persist-conflict" => RecordsAt(p) # {}
            /\ (pub[p].pc = "save" /\ RecordsAt(p) = {})
                 => ~DuplicateKey(store, UpdateSchema(pub[p])) )
  /\ [][ \A p \in Procs :
           ( /\ pub[p].pc = "save"
             /\ pub'[p] # pub[p]
             /\ pub'[p].err # "persist"
             /\ RecordsAt(p) = {} )
           => /\ pub'[p].pc = "close"
              /\ store' = Append(store, UpdateSchema(pub[p]))
              /\ \A cli \in CliInputs :
                   ExtractScope(Request("", cli.runtimeVersion, "",
                                        cli.platform, "", cli.channel, ""))
                     # ScopeOf(pub[p])
                   => Resolutions(store', cli) = Resolutions(store, cli) ]_vars

\* Two publishes of different scopes have both succeeded with the same commit
\* instant, and both records are in the store.
C24_Witness ==
  \E p, q \in Procs :
    /\ ScopeOf(pub[p]) # ScopeOf(pub[q])
    /\ pub[p].pc = "done"
    /\ pub[q].pc = "done"
    /\ pub[p].commitTime = pub[q].commitTime
    /\ Cardinality(RecordsOf(pub[p].updateId)) = 1
    /\ Cardinality(RecordsOf(pub[q].updateId)) = 1

\* C25: a publish that has failed with the not-found error has opened no
\* store connection, issued no upload and issued no fetch.
C25_NotFoundBeforeNetworkActivity ==
  \A p \in Procs :
    pub[p].err = "not-found"
    => /\ pub[p].pc = "failed"
       /\ pub[p].connects = 0
       /\ pub[p].puts = 0
       /\ pub[p].fetches = 0

\* The user-agent values whose lower-cased text includes "android", and those
\* whose lower-cased text includes "ios" and not "android".
AndroidAgents == { "okhttp/4.9.2 (Android 14)" }
IosAgents == { "Expo/1017 CFNetwork/1490 (iOS 17)" }

\* The earlier GET's third source of the platform: the user-agent header.
InferPlatform(ua) ==
  IF ua \in AndroidAgents THEN "android"
  ELSE IF ua \in IosAgents THEN "ios"
  ELSE ""

\* The scope by the four-level priority: header, query parameter, user-agent
\* inference (platform), default (channel).
PriorityScope(req) ==
  [ runtimeVersion |-> Or(req.hRv, req.qRv),
    platform |-> Or(Or(req.hPl, req.qPl), InferPlatform(req.userAgent)),
    channel |-> Or(Or(req.hCh, req.qCh), "production") ]

\* C26: the handler resolves the scope that the priority order gives: a
\* request whose runtimeVersion and platform the order supplies is not
\* rejected as incomplete, a manifest response is that of a record of that
\* scope, and a no-update response means that scope has no published record.
C26_ScopeByPriorityOfSources ==
  ( resp.kind # "none" /\ resp.dbUp )
  => LET scope == PriorityScope(resp.req)
     IN /\ ( scope.runtimeVersion # "" /\ scope.platform # "" )
             => resp.status # 400
        /\ resp.status = 200
             => SameScope(StoreThen[resp.record], scope.runtimeVersion,
                          scope.platform, scope.channel)
        /\ resp.kind = "empty" => Matching(StoreThen, scope) = {}

\* publish.ts generateUpdateId on 16 bytes of which the seventh is b6 and
\* the ninth b8 (the others are o): the version and variant bits are set,
\* then the bytes are written as 32 hexadecimal digits.
VersionedBytes(b6, b8, o) ==
  [ i \in 1..16 |-> IF i = 7 THEN (b6 % 16) + 64
                    ELSE IF i = 9 THEN (b8 % 64) + 128
                    ELSE o ]

HexDigits(bytes) ==
  [ i \in 1..32 |-> IF i % 2 = 1 THEN bytes[(i + 1) \div 2] \div 16
                    ELSE bytes[i \div 2] % 16 ]

\* route.ts isUUID on the 8-4-4-4-12 grouping of 32 digits: hexadecimal
\* digits, the thirteenth in 1-5, the seventeenth one of 8, 9, a, b.
RegexAccepts(digits) ==
  /\ \A i \in 1..32 : digits[i] \in 0..15
  /\ digits[13] \in 1..5
  /\ digits[17] \in 8..11

\* C27: whatever the random bytes, the identifier generated is of the syntax
\* the endpoint checks; the identifiers of distinct publishes differ; and the
\* manifest returned for the record of a publish carries that publish's
\* identifier, not one synthesized at resolution.
C27_GeneratedIdentifierKept ==
  /\ \A b \in 0..255, o \in {0, 255} :
       /\ RegexAccepts(HexDigits(VersionedBytes(b, o, o)))
       /\ RegexAccepts(HexDigits(VersionedBytes(o, b, o)))
  /\ \A p \in Procs :
       /\ pub[p].updateId # Undefined => isUUID(pub[p].updateId)
       /\ \A q \in Procs :
            (p # q /\ pub[p].updateId # Undefined)
              => pub[p].updateId # pub[q].updateId
  /\ \A p \in Procs :
       ( /\ resp.status = 200
         /\ StoreThen[resp.record].manifest.id = pub[p].updateId )
       => /\ resp.manifest[1].id = pub[p].updateId
          /\ resp.manifest[1].id \notin RandomUuids

OctetStream == "application/octet-stream"

\* C28: the put issued for a binary bundle carries content type
\* application/octet-stream and the blob is stored with it; the bundle asset
\* of every manifest assembled, and of every record persisted, declares
\* application/octet-stream as launch asset and as first asset, whatever the
\* bundle's extension.
C28_BundleIsOctetStream ==
  /\ \A p \in Procs :
       /\ (pub[p].pc = "upload" /\ pub[p].isBinary)
            => BundleUpload(pub[p]).contentType = OctetStream
       /\ pub[p].pc = "verify"
            => blob[pub[p].bundleUrl].contentType = OctetStream
       /\ pub[p].manifest # << >>
            => /\ pub[p].manifest[1].launchAsset[1].contentType = OctetStream
               /\ pub[p].manifest[1].assets[1].contentType = OctetStream
  /\ \A i \in DOMAIN store :
       /\ store[i].manifest.launchAsset[1].contentType = OctetStream
       /\ store[i].manifest.assets[1].contentType = OctetStream

\* A publish of a bundle with the js extension has persisted its record while
\* another has uploaded a binary bundle and awaits its verification.
C28_Witness ==
  \E p, q \in Procs :
    /\ Persisted(p)
    /\ pub[p].bundleExtension = "js"
    /\ Cardinality(RecordsOf(pub[p].updateId)) = 1
    /\ pub[q].pc = "verify"
    /\ pub[q].bundleExtension = "hbc"

\* The manifest a publish has assembled, field by field: the identifier, the
\* commit instant in ISO form, the runtime version of the command line, the
\* bundle asset as launch asset, the bundle asset and then the assets found,
\* in traversal order, as assets, empty metadata and extra.
AssembledFields(p) ==
  LET l == pub[p]
      m == l.manifest[1]
      bundle == [ hash |-> TaggedHash(l.bundleHash), key |-> "bundle",
                  contentType |-> "application/octet-stream",
                  url |-> l.bundleUrl ]
  IN /\ m.id = l.updateId
     /\ isUUID(m.id)
     /\ l.commitTime.tag = "date"
     /\ m.createdAt = IsoString(l.commitTime.n)
     /\ m.runtimeVersion = l.runtimeVersion
     /\ m.launchAsset = << bundle >>
     /\ Len(m.assets) = 1 + Len(l.assets)
     /\ Len(l.assets) <= MaxAssets
     /\ m.assets[1] = bundle
     /\ \A k \in 1..Len(l.assets) :
          /\ m.assets[k + 1].key = "assets/" \o AssetTable[k].rel
          /\ m.assets[k + 1].hash
               = TaggedHash(calculateHash(AssetTable[k].bytes))
          /\ m.assets[k + 1].contentType = getContentType(AssetTable[k].ext)
          /\ m.assets[k + 1].url[1] = l.updateId
     /\ l.bundleUrl[1] = l.updateId
     /\ m.metadata = "{}"
     /\ m.extra = "{}"

C30_ResolutionReadsOnceWritesNothing ==
  /\ [] ( /\ resp.queries \in {0, 1}
          /\ resp.status = 400 => resp.queries = 0
          /\ resp.status \in {200, 204} => resp.queries = 1 )
  /\ [][ resp' # resp => (store' = store /\ blob' = blob) ]_vars

\* A manifest has been returned from a collection of two records, after one
\* lookup.
C30_Witness ==
  /\ resp.status = 200
  /\ resp.queries = 1
  /\ Len(store) = 2
  /\ resp.asOf = 2

\* C31: for every response the fetch of any stored blob can come back with,
\* and the digest of any publish, verifyHashFromUrl returns a result (it does
\* not throw) whose matches is true exactly when the response is an HTTP
\* success with no content encoding other than identity and bytes of that
\* digest; the result then carries the digest and no error, and in every
\* other case it carries an error message.
C31_VerifyHashFromUrlVerdict ==
  \A p \in Procs :
    \A url \in DOMAIN blob \cup { pub[p].bundleUrl } :
      \A response \in FetchResponses(blob, url) :
        LET v == verifyHashFromUrl(response, pub[p].bundleHash)
        IN /\ DOMAIN v = {"matches", "actualHash", "error"}
           /\ v.matches \in BOOLEAN
           /\ v.matches <=> Confirms(response, pub[p].bundleHash)
           /\ v.matches
                => /\ v.error = Undefined
                   /\ v.actualHash = pub[p].bundleHash
           /\ ~v.matches => v.error \notin {Undefined, ""}

\* The fetch of a publish has come back with the right bytes and a gzip
\* content encoding, and the fetch of another with bytes of another digest.
C31_Witness ==
  \E p, q \in Procs :
    /\ pub[p].pc = "verify"
    /\ pub[p].response # << >>
    /\ pub[p].response[1].contentEncoding = "gzip"
    /\ calculateHash(pub[p].response[1].body) = pub[p].bundleHash
    /\ ~verifyHashFromUrl(pub[p].response[1], pub[p].bundleHash).matches
    /\ pub[q].pc = "verify"
    /\ pub[q].response # << >>
    /\ pub[q].response[1].ok
    /\ calculateHash(pub[q].response[1].body) # pub[q].bundleHash

\* The urls of a manifest: that of the launch asset and those of the assets.
UrlsOf(m) ==
  { m.launchAsset[k].url : k \in DOMAIN m.launchAsset }
    \cup { m.assets[k].url : k \in DOMAIN m.assets }

\* C32: a publish that has not completed its save has no record, so that no
\* resolution returns its manifest; the step that persists a record is taken
\* by a publish with no upload left, every url of its manifest stored, and,
\* for a binary bundle, a re-fetch made; a binary publish goes past its
\* integrity check only on a response that confirms the digest; and every url
\* of a manifest returned is stored when it is returned, the record being
\* that of a publish that has completed its save.
C32_ResolvedManifestsAreComplete ==
  /\ [] ( \A p \in Procs :
            (pub[p].updateId # Undefined /\ ~Persisted(p))
              => RecordsOf(pub[p].updateId) = {} )
  /\ [][ \A p \in Procs :
           /\ (pub[p].pc = "save" /\ pub'[p].pc = "close")
                => /\ pub[p].todo = << >>
                   /\ UrlsOf(pub[p].manifest[1]) \subseteq DOMAIN blob
                   /\ pub[p].isBinary => pub[p].fetches = 1
                   /\ store' = Append(store, UpdateSchema(pub[p]))
           /\ ( /\ pub[p].pc \notin {"assets", "save"}
                /\ pub'[p].pc \in {"assets", "save"}
                /\ pub'[p].isBinary )
                => /\ pub[p].pc = "verify"
                   /\ pub[p].response # << >>
                   /\ Confirms(pub[p].response[1], pub[p].bundleHash)
                   /\ pub[p].bundleUrl \in DOMAIN blob ]_vars
  /\ [][ (resp' # resp /\ resp'.status = 200)
           => /\ UrlsOf(resp'.manifest[1]) \subseteq DOMAIN blob
              /\ resp'.record \in DOMAIN store
              /\ \E p \in Procs :
                   /\ Persisted(p)
                   /\ resp'.record \in RecordsOf(pub[p].updateId) ]_vars

\* A manifest with an asset has been returned for the record of one publish
\* while another publish, of the same scope, has uploaded its bundle and has
\* not persisted.
C32_Witness ==
  \E p, q \in Procs :
    /\ resp.status = 200
    /\ resp.record \in RecordsOf(pub[p].updateId)
    /\ Len(resp.manifest[1].assets) > 1
    /\ pub[q].pc \in {"verify", "assets", "save"}
    /\ ScopeOf(pub[q]) = ScopeOf(pub[p])
    /\ pub[q].bundleUrl \in DOMAIN blob

\* C33: the store only grows, and after a manifest has been returned for a
\* scope every record a resolution of that scope can return, then or later,
\* has a commit instant at least that of the record returned; so do two
\* manifests returned one after the other for one scope.
C33_ResolvedCommitInstantNeverDecreases ==
  /\ [][ /\ Len(store') >= Len(store)
         /\ SubSeq(store', 1, Len(store)) = store ]_vars
  /\ [] ( ( resp.status = 200 /\ ValidScope(Asked) )
          => /\ FindLatest(store, Asked) # {}
             /\ \A i \in FindLatest(store, Asked) :
                  store[i].commitTime.n >= store[resp.record].commitTime.n )
  /\ [][ ( /\ resp.status = 200
           /\ resp'.status = 200
           /\ ExtractScope(resp'.req) = Asked )
         => store'[resp'.record].commitTime.n
              >= store[resp.record].commitTime.n ]_vars

\* A manifest was returned for the only record of a scope; a publish that
\* took an earlier commit instant has since persisted in that scope.
C33_Witness ==
  /\ resp.status = 200
  /\ resp.asOf = 1
  /\ resp.record = 1
  /\ Len(store) = 2
  /\ Matching(store, Asked) = {1, 2}
  /\ store[2].commitTime.n < store[1].commitTime.n

\* C34: two requests of one scope answered one after the other by a reachable
\* store, with no change of the store between them, get the same status and
\* the same manifest, the id included.
C34_ResolutionDeterministic ==
  [][ ( /\ resp.kind # "none"
        /\ resp' # resp
        /\ resp.dbUp
        /\ resp'.dbUp
        /\ ExtractScope(resp'.req) = Asked
        /\ resp'.asOf = resp.asOf
        /\ store' = store )
      => /\ resp'.status = resp.status
         /\ resp'.manifest = resp.manifest ]_vars

\* C35: the manifest returned for a record the pipeline persisted, asked
\* with the record's runtimeVersion, equals the manifest stored in the
\* record field by field: id, createdAt, runtimeVersion, launchAsset, assets,
\* metadata, extra.
C35_NormalizationIdentityOnPipelineRecords ==
  ( resp.status = 200 /\ Asked.runtimeVersion
                           = StoreThen[resp.record].manifest.runtimeVersion )
  => LET stored == StoreThen[resp.record].manifest
         m == resp.manifest[1]
     IN /\ m.createdAt = stored.createdAt
        /\ m.runtimeVersion = stored.runtimeVersion
        /\ m.launchAsset = stored.launchAsset
        /\ m.assets = stored.assets
        /\ m.metadata = stored.metadata
        /\ m.extra = stored.extra
        /\ m.id = stored.id

\* C36: in every manifest returned, assets has an entry with the launch
\* asset's url or key, and every such entry equals launchAsset in hash, key,
\* url and contentType.
C36_LaunchAssetEntryIdentical ==
  resp.status = 200
  => LET m == resp.manifest[1]
         la == m.launchAsset[1]
     IN /\ \E i \in DOMAIN m.assets :
             m.assets[i].url = la.url \/ m.assets[i].key = la.key
        /\ \A i \in DOMAIN m.assets :
             ( m.assets[i].url = la.url \/ m.assets[i].key = la.key )
             => /\ m.assets[i].hash = la.hash
                /\ m.assets[i].key = la.key
                /\ m.assets[i].url = la.url
                /\ m.assets[i].contentType = la.contentType

\* C37: an invocation goes past the entry point only with a channel among
\* development, staging, production, a platform among ios, android and a
\* runtime version; any other ends there with the failure exit, having opened
\* no store connection, run no export, drawn no identifier, issued no upload
\* or fetch, and the step changes neither the blobs nor the records.
C37_EntryPointRejectsBadInvocation ==
  /\ [] ( \A p \in Procs :
            /\ pub[p].err = "usage"
                 => /\ pub[p].pc = "failed"
                    /\ pub[p].connects = 0
                    /\ pub[p].puts = 0
                    /\ pub[p].fetches = 0
                    /\ pub[p].updateId = Undefined
                    /\ pub[p].commitTime = NoValue
            /\ pub[p].pc \notin {"idle", "failed"}
                 => /\ pub[p].channel \in {"development", "staging", "production"}
                    /\ pub[p].platform \in {"ios", "android"}
                    /\ pub[p].runtimeVersion # ""
            /\ (pub[p].pc = "failed" /\ pub[p].err # "usage")
                 => /\ pub[p].channel \in {"development", "staging", "production"}
                    /\ pub[p].platform \in {"ios", "android"}
                    /\ pub[p].runtimeVersion # "" )
  /\ [][ \A p \in Procs :
           (pub[p].err # "usage" /\ pub'[p].err = "usage")
             => /\ pub[p].pc = "idle"
                /\ blob' = blob
                /\ store' = store ]_vars

\* One invocation has been rejected at the entry point while another has
\* published.
C37_Witness ==
  \E p, q \in Procs :
    /\ pub[p].pc = "failed"
    /\ pub[p].err = "usage"
    /\ pub[q].pc = "done"
    /\ Len(store) = 1

\* C38: whatever the store holds, once the migration script has run over it
\* every record has an id; a record that had one is unchanged, no record has
\* a field other than id changed, the records are the same in number and
\* order, and a second run leaves the store as the first left it.
C38_MigrationGivesEveryRecordAnId ==
  \A written \in BOOLEAN :
    LET after == MigratedStore(store, written)
    IN /\ Len(after) = Len(store)
       /\ \A i \in DOMAIN store :
            /\ after[i].id # Undefined
            /\ store[i].id # Undefined => after[i] = store[i]
            /\ [after[i] EXCEPT !.id = store[i].id] = store[i]
       /\ MigratedStore(after, written) = after

====
